---- MODULE Spec2Model ----
(***************************************************************************)
(* Handwritten digit recognition: the classifier service (mnistModel.ts,   *)
(* src/unnamed/part_000) and the recognition orchestrator                  *)
(* (HandwrittenDigitRecognizer.tsx, src/unnamed/part_005).                 *)
(*                                                                         *)
(* Every `await` of the source is a suspension point: the awaited promise  *)
(* settles in one step and the code that follows the await runs, up to the *)
(* next await, in a later step.  Effect cleanups (cancellation) and        *)
(* disposeModel may run between any two steps.                             *)
(***************************************************************************)
EXTENDS Integers, Sequences, FiniteSets, TLC

\* ------------------------------------------------------------------ bounds
MaxRuns == 1        \* recognize runs (effect invocations) that are modelled
MaxClients == 2     \* direct calls of loadMNISTModel / predictDigit
MaxSegs == 2        \* segments segmentDigits may return
MaxDisposes == 1    \* disposeModel calls
SmallSide == 3      \* side of the small rasters, whose foreground is arbitrary
MaxDots == 3        \* foreground pixels of a small raster
CanvasW == 20       \* width of the rasters that carry glyph-sized marks
CanvasH == 22       \* height of the rasters that carry glyph-sized marks
MaxBands == 4       \* the largest expectedDigits passed to segmentDigitsSimple
MaxGain == 3        \* the largest contrast and brightness multiplier
MaxPicks == 2       \* files the user picks in the upload zone

Runs == 1..MaxRuns
Clients == (MaxRuns + 1)..(MaxRuns + MaxClients)
Procs == Runs \cup Clients

\* ---------------------------------------------------------------- values
\* `let model: tf.LayersModel | null = null`: handles are 1, 2, ...; NoModel is null.
NoModel == 0

\* A thrown or rejected value: isError is `value instanceof Error`.
Err(msg) == [isError |-> TRUE, message |-> msg]
NonError == [isError |-> FALSE, message |-> ""]
NoErr == [isError |-> FALSE, message |-> "-"]

\* The settled value of an awaited promise: a model handle, a prediction, or a rejection.
Pending == [state |-> "pending", h |-> NoModel, digit |-> -1, confidence |-> 0, err |-> NoErr]
Resolved(h) == [state |-> "ok", h |-> h, digit |-> -1, confidence |-> 0, err |-> NoErr]
Predicted(d, c) == [state |-> "ok", h |-> NoModel, digit |-> d, confidence |-> c, err |-> NoErr]
Rejected(e) == [state |-> "err", h |-> NoModel, digit |-> -1, confidence |-> 0, err |-> e]

VARIABLES
    model,        \* the module-level cache `model`
    stored,       \* whether indexeddb://mnist-model holds a saved model
    nextHandle,   \* the next fresh model instance
    disposed,     \* the instances on which dispose() was called
    nDispose,     \* how many times disposeModel was called
    nTrain,       \* how many times the build-and-train path reached `newModel.fit`
    lpc,          \* lpc[p]: where p's pending loadMNISTModel call is suspended
    newModel,     \* newModel[p]: the local `newModel` of p's loadMNISTModel call
    got,          \* got[p]: the handle p's latest loadMNISTModel call resolved with
    promise,      \* promise[p]: the settled value of the promise p made / awaits
    cpc,          \* cpc[c]: the call client c made
    cabsent,      \* cabsent[c]: the cache was null when c made its call
    cepoch        \* cepoch[c]: how many disposeModel calls preceded c's call

\* One recognize run per effect invocation of HandwrittenDigitRecognizer.
VARIABLES
    rpc,          \* rpc[r]: the await run r is suspended at, or how it ended
    cancelled,    \* cancelled[r]: the effect's `cancelled` flag
    progLog,      \* progLog[r]: the values run r passed to setProgress, in order
    status,       \* status[r]: the last string run r passed to setStatus
    stages,       \* stages[r]: the stages run r has started, in order
    callbacks,    \* callbacks[r]: the onComplete / onError calls run r made, in order
    segments,     \* segments[r]: what segmentDigits returned to run r
    segmented,    \* segmented[r]: run r has called segmentDigits
    results,      \* results[r]: the local `results` array
    idx,          \* idx[r]: the loop variable `i`
    threw,        \* threw[r]: the glyph indices whose inference threw
    fault         \* fault[r]: the value recognize's outer catch received

\* One call of segmentDigits / segmentDigitsSimple (digitSegmentation.ts).
VARIABLES
    image,          \* the ImageData passed in: width, height, and the R sample of each pixel
    spc,            \* where the call stands: "idle", "scan", "fill", "done"
    expectedDigits, \* the second argument of segmentDigitsSimple (0: absent)
    visited,        \* the indices idx with visited[idx] = true
    components,     \* the local `components` array
    scanIdx,        \* the index y * width + x the raster scan stands at
    fill,           \* the locals of the running floodFill: stack, minX, maxX, minY, maxY,
                    \* pixelCount
    marked,         \* the indices the running floodFill has marked
    pops,           \* the iterations of the running floodFill's while loop
    fills,          \* the finished floodFill calls: seed, marked pixels, box, count, iterations
    out             \* the SegmentedDigit array returned (the bbox of each)

segVars == <<image, spc, expectedDigits, visited, components, scanIdx, fill, marked, pops,
             fills, out>>

\* One iteration of the filter loop of preprocessImage (utils.ts).
VARIABLES
    pixel,          \* data[i..i + 3] before the iteration: r, g, b, a
    config,         \* the options: grayscale, contrast, brightness, threshold
    fpc,            \* "idle" before the iteration, "done" after it
    raw,            \* r, g, b after contrast and brightness, before they are clamped
    written         \* data[i..i + 3] after the iteration

\* RouteComponent (ocr.tsx).
VARIABLES
    selectedFile,       \* None or Some(file)
    imagePreview,       \* None or Some(file): the data URL of file
    reading,            \* the files whose FileReader has not fired onload yet
    ocrResult,          \* None or Some("text")
    handwritingResult,  \* None or Some(result)
    isProcessing,
    error,
    engine,             \* "tesseract" or "tensorflow"
    tpc,                \* the Tesseract branch of handleProcess: "idle" or "running"
    gen,                \* effect generations of the rendered recognizer so far; run
                        \* gen is the one the last render asks for
    delivered,          \* per run, the callbacks the route has handled
    picked,             \* ghost: the file of the last handleFileSelect call
    nPicks              \* ghost: handleFileSelect calls so far

filterVars == <<pixel, config, fpc, raw, written>>

\* The variables of the image functions, which the classifier service and the recognizer
\* leave alone.
imageVars == <<segVars, filterVars>>

routeVars == <<selectedFile, imagePreview, reading, ocrResult, handwritingResult,
               isProcessing, error, engine, tpc, gen, delivered, picked, nPicks>>

\* The variables the classifier service and the recognizer leave alone.
outerVars == <<imageVars, routeVars>>

modelVars == <<model, stored, nextHandle, disposed, nDispose, nTrain, lpc, newModel, got>>
clientVars == <<cpc, cabsent, cepoch>>
runVars == <<rpc, cancelled, progLog, status, stages, callbacks, segments, segmented,
             results, idx, threw, fault>>
vars == <<modelVars, promise, clientVars, runVars, imageVars, routeVars>>

\* ------------------------------------------------- classifier service
\* The predictions the forward pass may produce: arg-max digit and probability * 100.
Predictions == {<<0, 100>>, <<9, 60>>}

\* predictDigit's tf.tidy block: a prediction, or whatever predict/dataSync throws.
ForwardPass == {Predicted(pr[1], pr[2]) : pr \in Predictions} \cup {Rejected(Err("predict failed"))}

\* The catch of loadMNISTModel: every failure is rethrown as a new Error.
WrapInitError(e) ==
    Err("Failed to initialize MNIST model: " \o (IF e.isError THEN e.message ELSE "Unknown error"))

\* What MnistData.load rejects with: the sprite's error event, or fetch's TypeError.
DataLoadErrors == {NonError, Err("Failed to fetch")}

\* Mutant of CallLoad: predictDigit uses the cache without calling loadMNISTModel, so a
\* null cache makes the forward pass throw.
CallLoadNoLazyInit(p, infer) ==
    /\ IF model # NoModel
       THEN /\ got' = [got EXCEPT ![p] = model]
            /\ \E o \in (IF infer THEN ForwardPass ELSE {Resolved(model)}) :
                   promise' = [promise EXCEPT ![p] = o]
            /\ UNCHANGED lpc
       ELSE IF infer
            THEN /\ promise' = [promise EXCEPT ![p] =
                        Rejected(Err("Cannot read properties of null"))]
                 /\ got' = [got EXCEPT ![p] = NoModel]
                 /\ UNCHANGED lpc
            ELSE /\ lpc' = [lpc EXCEPT ![p] = "store"]
                 /\ promise' = [promise EXCEPT ![p] = Pending]
                 /\ got' = [got EXCEPT ![p] = NoModel]
    /\ UNCHANGED <<model, stored, nextHandle, disposed, nDispose, nTrain, newModel>>

\* predictDigit: `const mnistModel = await loadMNISTModel()`, then the forward pass.
\* A rejection of loadMNISTModel propagates unchanged.
PredictDigit(loadOut) == IF loadOut.state = "ok" THEN ForwardPass ELSE {loadOut}

\* The promise p awaits settles: loadMNISTModel's own promise, or, when the call
\* was made by predictDigit (infer), predictDigit's promise.
Deliver(p, infer, loadOut) ==
    /\ got' = [got EXCEPT ![p] = loadOut.h]
    /\ \E o \in (IF infer THEN PredictDigit(loadOut) ELSE {loadOut}) :
           promise' = [promise EXCEPT ![p] = o]

\* Mutant of CallLoad: the `if (model) return model` check is missing, so every call loads.
CallLoadIgnoresCache(p, infer) ==
    /\ lpc' = [lpc EXCEPT ![p] = "store"]
    /\ promise' = [promise EXCEPT ![p] = Pending]
    /\ got' = [got EXCEPT ![p] = NoModel]
    /\ UNCHANGED <<model, stored, nextHandle, disposed, nDispose, nTrain, newModel>>

\* loadMNISTModel up to its first await: the cache check, else the load from the store begins.
CallLoad(p, infer) ==
    /\ IF model # NoModel
       THEN /\ Deliver(p, infer, Resolved(model))
            /\ UNCHANGED lpc
       ELSE /\ lpc' = [lpc EXCEPT ![p] = "store"]
            /\ promise' = [promise EXCEPT ![p] = Pending]
            /\ got' = [got EXCEPT ![p] = NoModel]
    /\ UNCHANGED <<model, stored, nextHandle, disposed, nDispose, nTrain, newModel>>

\* Whether p's pending loadMNISTModel call was made by predictDigit.
IsInfer(p) == IF p \in Runs THEN rpc[p] = "infer" ELSE cpc[p] = "classify"

\* p's loadMNISTModel call returns or throws: its promise settles and its locals are gone.
Settle(p, loadOut) ==
    /\ lpc' = [lpc EXCEPT ![p] = "none"]
    /\ newModel' = [newModel EXCEPT ![p] = NoModel]
    /\ Deliver(p, IsInfer(p), loadOut)

\* `model = await tf.loadLayersModel('indexeddb://mnist-model')` resolves; `return model`.
StoreLoadOk(p) ==
    /\ lpc[p] = "store"
    /\ stored
    /\ model' = nextHandle
    /\ nextHandle' = nextHandle + 1
    /\ Settle(p, Resolved(nextHandle))
    /\ UNCHANGED <<stored, disposed, nDispose, nTrain, clientVars, runVars, outerVars>>

\* tf.loadLayersModel rejects (nothing saved, or unreadable): the inner catch logs,
\* createMNISTModel and compile run, and `await data.load()` begins.
StoreLoadFail(p) ==
    /\ lpc[p] = "store"
    /\ newModel' = [newModel EXCEPT ![p] = nextHandle]
    /\ nextHandle' = nextHandle + 1
    /\ lpc' = [lpc EXCEPT ![p] = "data"]
    /\ UNCHANGED <<model, stored, disposed, nDispose, nTrain, got, promise, clientVars,
                   runVars, outerVars>>

\* `await data.load()` resolves; `await newModel.fit(...)` begins.
DataLoadOk(p) ==
    /\ lpc[p] = "data"
    /\ lpc' = [lpc EXCEPT ![p] = "fit"]
    /\ nTrain' = nTrain + 1
    /\ UNCHANGED <<model, stored, nextHandle, disposed, nDispose, newModel, got, promise,
                   clientVars, runVars, outerVars>>

\* `await data.load()` rejects: the outer catch rethrows.
DataLoadFail(p) ==
    /\ lpc[p] = "data"
    /\ \E e \in DataLoadErrors : Settle(p, Rejected(WrapInitError(e)))
    /\ UNCHANGED <<model, stored, nextHandle, disposed, nDispose, nTrain, clientVars, runVars,
                   outerVars>>

\* `await newModel.fit(...)` resolves; `await newModel.save(...)` begins.
FitOk(p) ==
    /\ lpc[p] = "fit"
    /\ lpc' = [lpc EXCEPT ![p] = "save"]
    /\ UNCHANGED <<model, stored, nextHandle, disposed, nDispose, nTrain, newModel, got, promise,
                   clientVars, runVars, outerVars>>

\* `await newModel.fit(...)` rejects.
FitFail(p) ==
    /\ lpc[p] = "fit"
    /\ Settle(p, Rejected(WrapInitError(Err("fit failed"))))
    /\ UNCHANGED <<model, stored, nextHandle, disposed, nDispose, nTrain, clientVars, runVars,
                   outerVars>>

\* `await newModel.save(...)` resolves; `model = newModel; return model`.
SaveOk(p) ==
    /\ lpc[p] = "save"
    /\ stored' = TRUE
    /\ model' = newModel[p]
    /\ Settle(p, Resolved(newModel[p]))
    /\ UNCHANGED <<nextHandle, disposed, nDispose, nTrain, clientVars, runVars, outerVars>>

\* `await newModel.save(...)` rejects.
SaveFail(p) ==
    /\ lpc[p] = "save"
    /\ Settle(p, Rejected(WrapInitError(Err("save failed"))))
    /\ UNCHANGED <<model, stored, nextHandle, disposed, nDispose, nTrain, clientVars, runVars,
                   outerVars>>

\* Mutant of DisposeEffect: the instance is disposed but stays cached.
DisposeEffectKeepsCache ==
    IF model # NoModel
    THEN /\ disposed' = disposed \cup {model}
         /\ UNCHANGED model
    ELSE UNCHANGED <<model, disposed>>

\* `disposeModel`: release the cached instance, if any.
DisposeEffect ==
    IF model # NoModel
    THEN /\ disposed' = disposed \cup {model}
         /\ model' = NoModel
    ELSE UNCHANGED <<model, disposed>>

\* A call of disposeModel().
DisposeModel ==
    /\ nDispose < MaxDisposes
    /\ nDispose' = nDispose + 1
    /\ DisposeEffect
    /\ UNCHANGED <<stored, nextHandle, nTrain, lpc, newModel, got, promise, clientVars,
                   runVars, outerVars>>

\* ------------------------------------------------------ direct callers
\* A direct call of loadMNISTModel().  The callers are interchangeable: they make their
\* calls in the order of their numbers.
CallEnsure(c) ==
    /\ cpc[c] = "idle"
    /\ \A d \in Clients : d < c => cpc[d] # "idle"
    /\ cpc' = [cpc EXCEPT ![c] = "ensure"]
    /\ cabsent' = [cabsent EXCEPT ![c] = (model = NoModel)]
    /\ cepoch' = [cepoch EXCEPT ![c] = nDispose]
    /\ CallLoad(c, FALSE)
    /\ UNCHANGED <<runVars, outerVars>>

\* A direct call of predictDigitFromImage(imageData): preprocessForMNIST, then predictDigit.
CallClassify(c) ==
    /\ cpc[c] = "idle"
    /\ \A d \in Clients : d < c => cpc[d] # "idle"
    /\ cpc' = [cpc EXCEPT ![c] = "classify"]
    /\ cabsent' = [cabsent EXCEPT ![c] = (model = NoModel)]
    /\ cepoch' = [cepoch EXCEPT ![c] = nDispose]
    /\ CallLoad(c, TRUE)
    /\ UNCHANGED <<runVars, outerVars>>

\* ------------------------------------------------ recognition orchestrator
Stage(name, glyph) == [stage |-> name, glyph |-> glyph]

\* Mutant of LoopProgress: the loop counts the finished glyphs over a span of 45.
LoopProgressOvershoot(i, n) == <<55 * n + 45 * (i + 1), n>>

\* `55 + (i / segments.length) * 40` as the fraction <<numerator, denominator>>.
LoopProgress(i, n) == <<55 * n + 40 * i, n>>

\* The argument of an onError call and of an onComplete call.
OnError(msg) == [cb |-> "onError", message |-> msg, digits |-> <<>>, combinedText |-> ""]

\* Mutant of DigitChar: the sentinel is printed as the number it is.
DigitCharNoSentinel(d) == ToString(d)

\* `r.digit >= 0 ? r.digit : '?'`
DigitChar(d) == IF d >= 0 THEN ToString(d) ELSE "?"

\* `results.map(...).join('')`
RECURSIVE CombinedText(_)
CombinedText(res) ==
    IF res = <<>> THEN "" ELSE DigitChar(Head(res).digit) \o CombinedText(Tail(res))

OnComplete(res) ==
    [cb |-> "onComplete", message |-> "", digits |-> res, combinedText |-> CombinedText(res)]

\* What segmentDigits may return: n segments, left to right.
SegmentList(n) ==
    [k \in 1..n |-> [bbox |-> [x |-> 40 * (k - 1), y |-> 0, width |-> 30, height |-> 40]]]

\* Mutant of NoSegments: the empty result is not detected.
NoSegmentsNever(segs) == Len(segs) < 0

\* `if (segments.length === 0)`
NoSegments(segs) == Len(segs) = 0

\* The result pushed for a glyph whose prediction resolved.
PushedResult(pred, segment) ==
    [digit |-> pred.digit, confidence |-> pred.confidence, bbox |-> segment.bbox]

\* The result pushed by the per-glyph catch.
CatchResult(segment) == [digit |-> -1, confidence |-> 0, bbox |-> segment.bbox]

\* Mutant of ErrorMessage: the fallback text is reported for every error.
ErrorMessageGeneric(e) == "Recognition failed"

\* `err instanceof Error ? err.message : 'Recognition failed'`
ErrorMessage(e) == IF e.isError THEN e.message ELSE "Recognition failed"

\* What preprocessImage and the decoding of its data URL reject with.
PreprocessErrors == {Err("Canvas not supported"), Err("Failed to load image")}
DecodeErrors == {Err("Failed to load image")}

\* The run awaits a promise that is not a loadMNISTModel call, or has ended.
NoCall(r) ==
    /\ promise' = [promise EXCEPT ![r] = Pending]
    /\ UNCHANGED modelVars

\* The promise run r awaits has settled, so the code after the await runs.
Settled(r) == promise[r].state # "pending"

\* The outer catch of recognize, reporting nothing.
CatchSilent(r, e) ==
    /\ fault' = [fault EXCEPT ![r] = e]
    /\ rpc' = [rpc EXCEPT ![r] = IF cancelled[r] THEN "abandoned" ELSE "failed"]
    /\ UNCHANGED callbacks

\* The outer catch of recognize.
Catch(r, e) ==
    /\ fault' = [fault EXCEPT ![r] = e]
    /\ IF cancelled[r]
       THEN /\ rpc' = [rpc EXCEPT ![r] = "abandoned"]
            /\ UNCHANGED callbacks
       ELSE /\ callbacks' = [callbacks EXCEPT ![r] = Append(@, OnError(ErrorMessage(e)))]
            /\ rpc' = [rpc EXCEPT ![r] = "failed"]

\* The effect runs: recognize() up to `await loadMNISTModel()`.  The route renders one
\* recognizer, so an effect runs again only after the cleanup of the previous one.
Start(r) ==
    /\ rpc[r] = "idle"
    /\ \A q \in Runs : q < r => cancelled[q]
    /\ status' = [status EXCEPT ![r] = "Loading AI model (first time may take 30-60s to train)..."]
    /\ progLog' = [progLog EXCEPT ![r] = Append(@, <<10, 1>>)]
    /\ stages' = [stages EXCEPT ![r] = Append(@, Stage("LoadingModel", -1))]
    /\ rpc' = [rpc EXCEPT ![r] = "load"]
    /\ CallLoad(r, FALSE)
    /\ UNCHANGED <<cancelled, callbacks, segments, segmented, results, idx, threw, fault,
                   clientVars, outerVars>>

\* The effect's cleanup: `cancelled = true`.
Cancel(r) ==
    /\ rpc[r] # "idle"
    /\ ~cancelled[r]
    /\ cancelled' = [cancelled EXCEPT ![r] = TRUE]
    /\ UNCHANGED <<modelVars, promise, clientVars, rpc, progLog, status, stages, callbacks,
                   segments, segmented, results, idx, threw, fault, outerVars>>

\* After `await loadMNISTModel()`: setProgress(25), the cancellation check, Step 2 up to
\* `await preprocessImage(...)`; or the outer catch.
ResumeLoad(r) ==
    /\ rpc[r] = "load"
    /\ Settled(r)
    /\ IF promise[r].state = "ok"
       THEN /\ IF cancelled[r]
               THEN /\ progLog' = [progLog EXCEPT ![r] = Append(@, <<25, 1>>)]
                    /\ rpc' = [rpc EXCEPT ![r] = "abandoned"]
                    /\ UNCHANGED <<status, stages>>
               ELSE /\ progLog' = [progLog EXCEPT ![r] = @ \o <<(<<25, 1>>), (<<35, 1>>)>>]
                    /\ status' = [status EXCEPT ![r] = "Preprocessing image..."]
                    /\ stages' = [stages EXCEPT ![r] = Append(@, Stage("Preprocessing", -1))]
                    /\ rpc' = [rpc EXCEPT ![r] = "preprocess"]
            /\ UNCHANGED <<callbacks, fault>>
       ELSE /\ Catch(r, promise[r].err)
            /\ UNCHANGED <<progLog, status, stages>>
    /\ NoCall(r)
    /\ UNCHANGED <<cancelled, segments, segmented, results, idx, threw, clientVars, outerVars>>

\* The promise of preprocessImage resolves with the data URL.
PreprocessOk(r) ==
    /\ rpc[r] = "preprocess"
    /\ promise[r].state = "pending"
    /\ promise' = [promise EXCEPT ![r] = Resolved(NoModel)]
    /\ UNCHANGED <<modelVars, clientVars, runVars, outerVars>>

\* The promise of preprocessImage rejects.
PreprocessFail(r) ==
    /\ rpc[r] = "preprocess"
    /\ promise[r].state = "pending"
    /\ \E e \in PreprocessErrors : promise' = [promise EXCEPT ![r] = Rejected(e)]
    /\ UNCHANGED <<modelVars, clientVars, runVars, outerVars>>

\* After `await preprocessImage(...)`: Step 3 up to the await of the decoding promise.
ResumePreprocess(r) ==
    /\ rpc[r] = "preprocess"
    /\ Settled(r)
    /\ IF promise[r].state = "ok"
       THEN /\ status' = [status EXCEPT ![r] = "Loading preprocessed image..."]
            /\ progLog' = [progLog EXCEPT ![r] = Append(@, <<45, 1>>)]
            /\ stages' = [stages EXCEPT ![r] = Append(@, Stage("Decoding", -1))]
            /\ rpc' = [rpc EXCEPT ![r] = "decode"]
            /\ UNCHANGED <<callbacks, fault>>
       ELSE /\ Catch(r, promise[r].err)
            /\ UNCHANGED <<progLog, status, stages>>
    /\ NoCall(r)
    /\ UNCHANGED <<cancelled, segments, segmented, results, idx, threw, clientVars, outerVars>>

\* img.onload: the decoding promise resolves with the image data.
DecodeOk(r) ==
    /\ rpc[r] = "decode"
    /\ promise[r].state = "pending"
    /\ promise' = [promise EXCEPT ![r] = Resolved(NoModel)]
    /\ UNCHANGED <<modelVars, clientVars, runVars, outerVars>>

\* img.onerror: the decoding promise rejects.
DecodeFail(r) ==
    /\ rpc[r] = "decode"
    /\ promise[r].state = "pending"
    /\ \E e \in DecodeErrors : promise' = [promise EXCEPT ![r] = Rejected(e)]
    /\ UNCHANGED <<modelVars, clientVars, runVars, outerVars>>

\* One loop iteration up to `await predictDigitFromImage(segment.imageData)`.
\* st, pl and sg are the status, the progress values and the stages reported so far.
BeginGlyph(r, i, n, st, pl, sg) ==
    /\ status' = [status EXCEPT ![r] = st]
    /\ progLog' = [progLog EXCEPT ![r] = Append(pl, LoopProgress(i, n))]
    /\ stages' = [stages EXCEPT ![r] = Append(sg, Stage("Classifying", i))]
    /\ idx' = [idx EXCEPT ![r] = i]
    /\ rpc' = [rpc EXCEPT ![r] = "infer"]
    /\ CallLoad(r, TRUE)
    /\ UNCHANGED callbacks

\* Step 6: the loop is over; setStatus, setProgress(100), onComplete.
Finish(r, res, pl, sg) ==
    /\ status' = [status EXCEPT ![r] = "Complete!"]
    /\ progLog' = [progLog EXCEPT ![r] = Append(pl, <<100, 1>>)]
    /\ stages' = [stages EXCEPT ![r] = sg]
    /\ callbacks' = [callbacks EXCEPT ![r] = Append(@, OnComplete(res))]
    /\ rpc' = [rpc EXCEPT ![r] = "done"]
    /\ NoCall(r)
    /\ UNCHANGED idx

\* `for (let i = ...; i < segments.length; i++)` entered at i: the next iteration, or Step 6.
LoopFrom(r, i, n, res, st, pl, sg) ==
    IF i < n THEN BeginGlyph(r, i, n, st, pl, sg) ELSE Finish(r, res, pl, sg)

\* Mutant of NoDigitsExit: the `return` after onError is missing, so Step 5 and Step 6
\* run on the empty list.
NoDigitsExitNoReturn(r, pl, sg) ==
    /\ status' = [status EXCEPT ![r] = "Complete!"]
    /\ progLog' = [progLog EXCEPT ![r] = Append(pl, <<100, 1>>)]
    /\ stages' = [stages EXCEPT ![r] = sg]
    /\ callbacks' = [callbacks EXCEPT ![r] =
          @ \o <<OnError("No digits detected. Try adjusting the image or preprocessing."),
                 OnComplete(<<>>)>>]
    /\ rpc' = [rpc EXCEPT ![r] = "done"]
    /\ NoCall(r)
    /\ UNCHANGED idx

\* The zero-segment exit: onError('No digits detected...') and return.
NoDigitsExit(r, pl, sg) ==
    /\ status' = [status EXCEPT ![r] = "Detecting digits..."]
    /\ progLog' = [progLog EXCEPT ![r] = pl]
    /\ stages' = [stages EXCEPT ![r] = sg]
    /\ callbacks' = [callbacks EXCEPT ![r] = Append(@,
          OnError("No digits detected. Try adjusting the image or preprocessing."))]
    /\ rpc' = [rpc EXCEPT ![r] = "failed"]
    /\ NoCall(r)
    /\ UNCHANGED idx

\* After the decoding await: Step 4 (segmentDigits), the zero-segment exit, and Step 5 up to
\* the first `await predictDigitFromImage`; or the outer catch.
ResumeDecode(r) ==
    /\ rpc[r] = "decode"
    /\ Settled(r)
    /\ IF promise[r].state = "ok"
       THEN /\ \E n \in 0..MaxSegs :
                 LET pl == Append(progLog[r], <<55, 1>>)
                     sg == Append(stages[r], Stage("Segmenting", -1))
                 IN  /\ segments' = [segments EXCEPT ![r] = SegmentList(n)]
                     /\ segmented' = [segmented EXCEPT ![r] = TRUE]
                     /\ IF NoSegments(SegmentList(n))
                        THEN NoDigitsExit(r, pl, sg)
                        ELSE LoopFrom(r, 0, n, <<>>,
                                      "Recognizing " \o ToString(n) \o " digit(s)...", pl, sg)
            /\ UNCHANGED fault
       ELSE /\ Catch(r, promise[r].err)
            /\ NoCall(r)
            /\ UNCHANGED <<progLog, status, stages, segments, segmented, idx>>
    /\ UNCHANGED <<cancelled, results, threw, clientVars, outerVars>>

\* Mutant of ResumeInfer: no per-glyph try/catch, a rejected inference reaches the outer catch.
ResumeInferNoCatch(r) ==
    /\ rpc[r] = "infer"
    /\ Settled(r)
    /\ LET i == idx[r]
           n == Len(segments[r])
           segment == segments[r][i + 1]
           res == Append(results[r], PushedResult(promise[r], segment))
       IN  IF promise[r].state = "ok"
           THEN /\ results' = [results EXCEPT ![r] = res]
                /\ LoopFrom(r, i + 1, n, res, status[r], progLog[r], stages[r])
                /\ UNCHANGED <<threw, fault>>
           ELSE /\ Catch(r, promise[r].err)
                /\ threw' = [threw EXCEPT ![r] = @ \cup {i}]
                /\ NoCall(r)
                /\ UNCHANGED <<results, status, progLog, stages, idx>>
    /\ UNCHANGED <<cancelled, segments, segmented, clientVars, outerVars>>

\* After `await predictDigitFromImage`: the push of the try or of the per-glyph catch, then
\* the next iteration, or Step 6 and onComplete.
ResumeInfer(r) ==
    /\ rpc[r] = "infer"
    /\ Settled(r)
    /\ LET i == idx[r]
           n == Len(segments[r])
           segment == segments[r][i + 1]
           ok == promise[r].state = "ok"
           res == Append(results[r], IF ok THEN PushedResult(promise[r], segment)
                                           ELSE CatchResult(segment))
       IN  /\ results' = [results EXCEPT ![r] = res]
           /\ threw' = [threw EXCEPT ![r] = IF ok THEN @ ELSE @ \cup {i}]
           /\ LoopFrom(r, i + 1, n, res, status[r], progLog[r], stages[r])
    /\ UNCHANGED <<cancelled, segments, segmented, fault, clientVars, outerVars>>

\* ------------------------------------------------- digit segmentation
Min(a, b) == IF a < b THEN a ELSE b
Max(a, b) == IF a > b THEN a ELSE b

\* The variables the segmenter leaves alone.
recognizerVars == <<modelVars, promise, clientVars, runVars>>
otherVars == <<recognizerVars, filterVars, routeVars>>

\* `isForeground(x, y)`: the R sample of the pixel is below 128.  data holds one R sample
\* per pixel, at index y * width + x.
IsForeground(img, x, y) == img.data[y * img.width + x] < 128

\* Mutant of Neighbours: the four diagonal neighbours are not pushed.
NeighboursNoDiagonals(x, y) == <<(<<x + 1, y>>), (<<x - 1, y>>), (<<x, y + 1>>), (<<x, y - 1>>)>>

\* The eight `stack.push` calls of floodFill, in their order.
Neighbours(x, y) ==
    <<(<<x + 1, y>>), (<<x - 1, y>>), (<<x, y + 1>>), (<<x, y - 1>>),
      (<<x + 1, y + 1>>), (<<x - 1, y - 1>>), (<<x + 1, y - 1>>), (<<x - 1, y + 1>>)>>

\* Mutant of RejectComponent: a component of exactly 50 pixels counts as noise.
RejectComponentOffByOne(pixelCount, componentWidth, componentHeight, width, height) ==
    \/ pixelCount <= 50
    \/ 10 * (componentWidth * componentHeight) > 9 * (width * height)
    \/ componentWidth < 10
    \/ componentHeight < 10

\* The filter at the end of floodFill.  `area > width * height * 0.9` is compared in tenths:
\* the double product is exact wherever it is an integer.
RejectComponent(pixelCount, componentWidth, componentHeight, width, height) ==
    \/ pixelCount < 50
    \/ 10 * (componentWidth * componentHeight) > 9 * (width * height)
    \/ componentWidth < 10
    \/ componentHeight < 10

\* The box floodFill returns.
BoundingBox(f) ==
    [x |-> f.minX, y |-> f.minY, width |-> f.maxX - f.minX + 1, height |-> f.maxY - f.minY + 1]

\* Insertion of b behind every box whose x is not larger: the sort is stable.
RECURSIVE InsertByX(_, _)
InsertByX(sorted, b) ==
    IF sorted = <<>> THEN <<b>>
    ELSE IF Head(sorted).x - b.x <= 0 THEN <<Head(sorted)>> \o InsertByX(Tail(sorted), b)
    ELSE <<b>> \o sorted

\* Mutant of SortByX: the components stay in the order the scan found them.
SortByXMissing(boxes) == boxes

\* `components.sort((a, b) => a.x - b.x)`
RECURSIVE SortByX(_)
SortByX(boxes) ==
    IF boxes = <<>> THEN <<>>
    ELSE InsertByX(SortByX(SubSeq(boxes, 1, Len(boxes) - 1)), boxes[Len(boxes)])

\* The bbox of `components.map(...)`: the padding of 5 and the clamping to the raster.
PaddedBox(bbox, width, height) ==
    LET paddedX == Max(0, bbox.x - 5)
        paddedY == Max(0, bbox.y - 5)
    IN  [x |-> paddedX,
         y |-> paddedY,
         width |-> Min(width - paddedX, bbox.width + 5 * 2),
         height |-> Min(height - paddedY, bbox.height + 5 * 2)]

\* The bands of segmentDigitsSimple: `digitWidth = Math.floor(width / expectedDigits)`.
SimpleBands(width, height, n) ==
    LET digitWidth == width \div n
    IN  [i \in 1..n |-> [bbox |-> [x |-> (i - 1) * digitWidth, y |-> 0,
                                   width |-> digitWidth, height |-> height]]]

NoFill == [stack |-> <<>>, minX |-> 0, maxX |-> 0, minY |-> 0, maxY |-> 0, pixelCount |-> 0]

\* The first lines of segmentDigits: nothing visited, no component.
EnterSegmentDigits ==
    /\ spc' = "scan"
    /\ visited' = {}
    /\ components' = <<>>
    /\ scanIdx' = 0
    /\ UNCHANGED <<image, fill, marked, pops, fills, out, otherVars>>

\* A call of segmentDigits(imageData).
CallSegmentDigits ==
    /\ spc = "idle"
    /\ expectedDigits' = 0
    /\ EnterSegmentDigits

\* A call of segmentDigitsSimple(imageData, n): the connected-component method when n is
\* absent or 0, else the n bands.
CallSegmentDigitsSimple(n) ==
    /\ spc = "idle"
    /\ expectedDigits' = n
    /\ IF n = 0
       THEN EnterSegmentDigits
       ELSE /\ out' = SimpleBands(image.width, image.height, n)
            /\ spc' = "done"
            /\ UNCHANGED <<image, visited, components, scanIdx, fill, marked, pops, fills,
                           otherVars>>

\* The pixels the raster scan has still to look at and will start a floodFill from.
Seeds ==
    {i \in scanIdx..(image.width * image.height - 1) :
        i \notin visited /\ IsForeground(image, i % image.width, i \div image.width)}

\* The scan loops reach the next unvisited foreground pixel: floodFill(x, y) begins.
ScanSeed ==
    /\ spc = "scan"
    /\ Seeds # {}
    /\ LET i == CHOOSE j \in Seeds : \A k \in Seeds : j <= k
           startX == i % image.width
           startY == i \div image.width
       IN  /\ scanIdx' = i
           /\ fill' = [stack |-> <<(<<startX, startY>>)>>, minX |-> startX, maxX |-> startX,
                       minY |-> startY, maxY |-> startY, pixelCount |-> 0]
    /\ marked' = {}
    /\ pops' = 0
    /\ spc' = "fill"
    /\ UNCHANGED <<image, expectedDigits, visited, components, fills, out, otherVars>>

\* `stack.pop()` of a coordinate outside the raster: continue.
PopOutside ==
    /\ spc = "fill"
    /\ fill.stack # <<>>
    /\ LET x == fill.stack[Len(fill.stack)][1]
           y == fill.stack[Len(fill.stack)][2]
       IN  /\ (x < 0 \/ x >= image.width \/ y < 0 \/ y >= image.height)
           /\ fill' = [fill EXCEPT !.stack = SubSeq(@, 1, Len(@) - 1)]
    /\ pops' = pops + 1
    /\ UNCHANGED <<image, spc, expectedDigits, visited, components, scanIdx, marked, fills, out,
                   otherVars>>

\* `stack.pop()` of a pixel that is visited or not foreground: continue.
PopSkip ==
    /\ spc = "fill"
    /\ fill.stack # <<>>
    /\ LET x == fill.stack[Len(fill.stack)][1]
           y == fill.stack[Len(fill.stack)][2]
       IN  /\ ~(x < 0 \/ x >= image.width \/ y < 0 \/ y >= image.height)
           /\ (y * image.width + x \in visited \/ ~IsForeground(image, x, y))
           /\ fill' = [fill EXCEPT !.stack = SubSeq(@, 1, Len(@) - 1)]
    /\ pops' = pops + 1
    /\ UNCHANGED <<image, spc, expectedDigits, visited, components, scanIdx, marked, fills, out,
                   otherVars>>

\* `stack.pop()` of an unvisited foreground pixel: it is marked and counted, the box grows,
\* and its eight neighbours are pushed.
PopMark ==
    /\ spc = "fill"
    /\ fill.stack # <<>>
    /\ LET x == fill.stack[Len(fill.stack)][1]
           y == fill.stack[Len(fill.stack)][2]
           pix == y * image.width + x
       IN  /\ ~(x < 0 \/ x >= image.width \/ y < 0 \/ y >= image.height)
           /\ ~(pix \in visited \/ ~IsForeground(image, x, y))
           /\ visited' = visited \cup {pix}
           /\ marked' = marked \cup {pix}
           /\ fill' = [stack |-> SubSeq(fill.stack, 1, Len(fill.stack) - 1) \o Neighbours(x, y),
                       minX |-> Min(fill.minX, x), maxX |-> Max(fill.maxX, x),
                       minY |-> Min(fill.minY, y), maxY |-> Max(fill.maxY, y),
                       pixelCount |-> fill.pixelCount + 1]
    /\ pops' = pops + 1
    /\ UNCHANGED <<image, spc, expectedDigits, components, scanIdx, fills, out, otherVars>>

\* The stack is empty: floodFill returns the box, or null for a rejected component, and
\* the scan goes on behind the seed.
FillReturn ==
    /\ spc = "fill"
    /\ fill.stack = <<>>
    /\ LET bbox == BoundingBox(fill)
           rejected == RejectComponent(fill.pixelCount, bbox.width, bbox.height,
                                       image.width, image.height)
       IN  /\ components' = IF rejected THEN components ELSE Append(components, bbox)
           /\ fills' = Append(fills, [seed |-> scanIdx, marked |-> marked, bbox |-> bbox,
                                      pixelCount |-> fill.pixelCount, pops |-> pops,
                                      accepted |-> ~rejected])
    /\ fill' = NoFill
    /\ marked' = {}
    /\ pops' = 0
    /\ scanIdx' = scanIdx + 1
    /\ spc' = "scan"
    /\ UNCHANGED <<image, expectedDigits, visited, out, otherVars>>

\* The scan is over: the components are sorted and mapped to padded segments.
ScanEnd ==
    /\ spc = "scan"
    /\ Seeds = {}
    /\ LET sorted == SortByX(components)
       IN  /\ components' = sorted
           /\ out' = [k \in 1..Len(sorted) |->
                         [bbox |-> PaddedBox(sorted[k], image.width, image.height)]]
    /\ scanIdx' = image.width * image.height
    /\ spc' = "done"
    /\ UNCHANGED <<image, expectedDigits, visited, fill, marked, pops, fills, otherVars>>

\* The rasters segmentation is checked on.  A raster is painted from a set of foreground
\* pixels with one dark and one light tone.
Paint(width, height, fg, dark, light) ==
    [width |-> width, height |-> height,
     data |-> [i \in 0..(width * height - 1) |->
                  IF <<i % width, i \div width>> \in fg THEN dark ELSE light]]

Tones == {<<0, 255>>, <<127, 128>>}

SmallPixels == (0..(SmallSide - 1)) \X (0..(SmallSide - 1))

SmallRasters ==
    {Paint(SmallSide, SmallSide, fg, t[1], t[2]) :
        fg \in {d \in SUBSET SmallPixels : Cardinality(d) <= MaxDots}, t \in Tones}

\* A connected mark with the tight box (x, y, w, h) and k pixels, w + h - 1 <= k <= w * h:
\* the left column, the top row, then the rest of the box row by row.
Mark(x, y, w, h, k) ==
    {<<x + dx, y + dy>> : <<dx, dy>> \in
        {d \in (0..(w - 1)) \X (0..(h - 1)) :
            (IF d[1] = 0 THEN d[2]
             ELSE IF d[2] = 0 THEN h + d[1] - 1
             ELSE h + w - 1 + (d[2] - 1) * (w - 1) + (d[1] - 1)) < k}}

\* Glyph-sized marks around the limits of the filter, a speck, and marks about as large as
\* the raster.
Templates ==
    {<<10, 10, 50>>, <<10, 10, 49>>, <<9, 12, 60>>, <<12, 9, 60>>, <<3, 3, 9>>,
     <<CanvasW - 2, CanvasH, 50>>, <<CanvasW - 1, CanvasH, 50>>}

MarkXs == {0, 2, CanvasW - 11}
MarkYs == {0, 3, CanvasH - 11}

MarksAt(xs, ys, templates) ==
    {Mark(x, y, t[1], t[2], t[3]) :
        <<x, y, t>> \in {p \in xs \X ys \X templates :
                            p[1] + p[3][1] <= CanvasW /\ p[2] + p[3][2] <= CanvasH}}

\* One mark, or one mark at the top and one at the bottom of the raster.
CanvasRasters ==
    {Paint(CanvasW, CanvasH, fg, 0, 255) :
        fg \in {{}} \cup MarksAt(MarkXs, MarkYs, Templates)
               \cup {a \cup b : <<a, b>> \in
                        MarksAt(MarkXs, {0}, {<<10, 10, 50>>, <<3, 3, 9>>})
                        \X MarksAt(MarkXs, {CanvasH - 11}, {<<10, 10, 50>>, <<10, 10, 49>>})}}

Rasters == SmallRasters \cup CanvasRasters

NoImage == [width |-> 1, height |-> 1, data |-> [i \in {0} |-> 255]]

\* ------------------------------------------------- pixel filter
\* The filter loop of preprocessImage on one pixel.  Its doubles are modelled as exact
\* fractions over Unit; contrast and brightness are given in tenths.
Unit == 1000 * 10 * 10

\* Mutant of Clamp: the value is not clamped before the binarization.
ClampMissing(v) == v

\* `Math.max(0, Math.min(255, v))`
Clamp(v) == Max(0, Min(255 * Unit, v))

\* The conversion of a number stored into a Uint8ClampedArray: rounded to the nearest
\* integer, ties to even, and clamped to 0..255.
ToUint8Clamped(v) ==
    LET q == v \div Unit
        rem == v % Unit
        rounded == IF 2 * rem < Unit THEN q
                   ELSE IF 2 * rem > Unit THEN q + 1
                   ELSE IF q % 2 = 0 THEN q ELSE q + 1
    IN  Max(0, Min(255, rounded))

\* `0.299 * r + 0.587 * g + 0.114 * b`, in thousandths.
Gray(r, g, b) == 299 * r + 587 * g + 114 * b

\* `((v - 128) * contrast + 128) * brightness` for v in thousandths.
ContrastBrightness(v, contrast, brightness) ==
    ((v - 128 * 1000) * contrast + 128 * 10000) * brightness

\* The r, g, b of a pixel before `// Clamp values`.
Unclamped(p, c) ==
    LET grey == Gray(p[1], p[2], p[3])
    IN  [k \in 1..3 |-> ContrastBrightness(IF c.grayscale THEN grey ELSE 1000 * p[k],
                                            c.contrast, c.brightness)]

\* The r, g, b stored into data[i], data[i + 1], data[i + 2]; data[i + 3] is not written.
Filtered(p, c) ==
    LET v == [k \in 1..3 |-> Clamp(Unclamped(p, c)[k])]
        avg3 == v[1] + v[2] + v[3]
        bin == IF avg3 > 3 * c.threshold.value * Unit THEN 255 * Unit ELSE 0
    IN  [k \in 1..4 |-> IF k = 4 THEN p[4]
                        ELSE ToUint8Clamped(IF c.threshold.isNull THEN v[k] ELSE bin)]

\* One iteration of the filter loop.
ApplyFilter ==
    /\ fpc = "idle"
    /\ raw' = Unclamped(pixel, config)
    /\ written' = Filtered(pixel, config)
    /\ fpc' = "done"
    /\ UNCHANGED <<pixel, config, recognizerVars, segVars, routeVars>>

\* The pixels and the options the filter is checked on.
Samples == {0, 100, 128, 200, 255}
Pixels == Samples \X Samples \X Samples \X {0, 128, 255}
Gains == {0, 10, 12, 25, 10 * MaxGain}
Thresholds ==
    {[isNull |-> TRUE, value |-> 0]}
    \cup {[isNull |-> FALSE, value |-> t] : t \in {0, 128, 140, 255}}
Configs ==
    [grayscale : BOOLEAN, contrast : Gains, brightness : Gains, threshold : Thresholds]

\* The options HandwrittenDigitRecognizer passes: grayscale, contrast 2.5, brightness 1.2,
\* threshold 140.
TunedConfig ==
    [grayscale |-> TRUE, contrast |-> 25, brightness |-> 12,
     threshold |-> [isNull |-> FALSE, value |-> 140]]

FilterIdle(p, c) ==
    /\ pixel = p
    /\ config = c
    /\ fpc = "idle"
    /\ raw = <<0, 0, 0>>
    /\ written = p

\* ------------------------------------------------------ the route (ocr.tsx)
\* `File | null`, `HandwritingResult | null` and the preview URL are sequences of at most
\* one element; <<>> is null (the empty string, for the preview).
None == <<>>
Some(v) == <<v>>

VALID_IMAGE_TYPES ==
    {"image/jpeg", "image/jpg", "image/png", "image/gif", "image/webp", "image/bmp"}

MAX_FILE_SIZE == 10 * 1024 * 1024

\* validateImageFile; `error` is "" where the code leaves it undefined, which is what
\* `validation.error || ''` makes of it.
ValidateImageFile(file) ==
    IF file.type \notin VALID_IMAGE_TYPES
    THEN [valid |-> FALSE,
          error |-> "Please select a valid image file (JPG, PNG, GIF, WEBP, or BMP)"]
    ELSE IF file.size > MAX_FILE_SIZE
    THEN [valid |-> FALSE, error |-> "File size must be less than 10MB"]
    ELSE [valid |-> TRUE, error |-> ""]

\* The React state of RouteComponent.  preprocessedImage, progress and processingTime
\* belong to the Tesseract branch and are left out.
routeState ==
    <<selectedFile, imagePreview, ocrResult, handwritingResult, isProcessing, error, engine>>

\* `{isProcessing && engine === 'tensorflow' && selectedFile && (...)}`: the route
\* renders the recognizer.
Mounted == isProcessing /\ engine = "tensorflow" /\ selectedFile # None

\* The same, of the state the step leaves.
MountedNext == isProcessing' /\ engine' = "tensorflow" /\ selectedFile' # None

\* A state change renders the route again.  handleTFComplete and handleTFError are new
\* functions in every render and are dependencies of the recognizer's effect, so a
\* recognizer that is rendered after the change gets a new effect generation: the cleanup
\* of the previous one, if any, and a new recognize().
Render ==
    gen' = IF MountedNext /\ routeState' # routeState THEN gen + 1 ELSE gen

\* The effects of the last render have run: the recognizer that is rendered has started
\* its run, and every other run that started has been cleaned up.  The runs of MaxRuns
\* generations are modelled: a render that asks for one more ends the behaviour, but for
\* the cleanup of the runs that started.
EffectsFlushed ==
    /\ gen <= MaxRuns
    /\ Mounted => rpc[gen] # "idle"
    /\ \A r \in Runs : rpc[r] # "idle" /\ ~cancelled[r] => Mounted /\ r = gen

\* onComplete and onError run inside the recognizer's step: no other step comes between
\* a callback and the state change it makes.
NoUndelivered == \A r \in Runs : delivered[r] = Len(callbacks[r])

\* The browser is between tasks: a user event or a continuation may run.
Quiet == EffectsFlushed /\ NoUndelivered

\* handleFileSelect, called by FileUploadZone, which is rendered in every state.
HandleFileSelect(file) ==
    /\ Quiet
    /\ nPicks < MaxPicks
    /\ nPicks' = nPicks + 1
    /\ picked' = file
    /\ LET validation == ValidateImageFile(file) IN
       IF ~validation.valid
       THEN /\ error' = validation.error
            /\ UNCHANGED <<selectedFile, ocrResult, handwritingResult, reading>>
       ELSE /\ error' = ""
            /\ selectedFile' = Some(file)
            /\ ocrResult' = None
            /\ handwritingResult' = None
            /\ reading' = reading \cup {file}
    /\ UNCHANGED <<imagePreview, isProcessing, engine, tpc, delivered>>
    /\ Render
    /\ UNCHANGED <<recognizerVars, imageVars>>

\* reader.onload: setImagePreview.
ReaderOnload(file) ==
    /\ Quiet
    /\ file \in reading
    /\ reading' = reading \ {file}
    /\ imagePreview' = Some(file)
    /\ UNCHANGED <<selectedFile, ocrResult, handwritingResult, isProcessing, error, engine,
                   tpc, delivered, picked, nPicks>>
    /\ Render
    /\ UNCHANGED <<recognizerVars, imageVars>>

\* handleProcess, called by ProcessButton, which is rendered when a file is selected and
\* nothing is processing.  The Tesseract branch goes on in TesseractSettle.
HandleProcess ==
    /\ Quiet
    /\ selectedFile # None
    /\ ~isProcessing
    /\ engine = "tesseract" => tpc = "idle"
    /\ isProcessing' = TRUE
    /\ error' = ""
    /\ ocrResult' = None
    /\ handwritingResult' = None
    /\ tpc' = IF engine = "tesseract" THEN "running" ELSE tpc
    /\ UNCHANGED <<selectedFile, imagePreview, reading, engine, delivered, picked, nPicks>>
    /\ Render
    /\ UNCHANGED <<recognizerVars, imageVars>>

\* The Tesseract branch of handleProcess comes to its end: setOcrResult or the catch's
\* setError, then the finally's setIsProcessing(false).
TesseractSettle ==
    /\ Quiet
    /\ tpc = "running"
    /\ tpc' = "idle"
    /\ \/ ocrResult' = Some("text") /\ UNCHANGED error
       \/ error' = "OCR processing failed" /\ UNCHANGED ocrResult
    /\ isProcessing' = FALSE
    /\ UNCHANGED <<selectedFile, imagePreview, reading, handwritingResult, engine,
                   delivered, picked, nPicks>>
    /\ Render
    /\ UNCHANGED <<recognizerVars, imageVars>>

\* The engine selector: setEngine.
SetEngine(e) ==
    /\ Quiet
    /\ e # engine
    /\ engine' = e
    /\ UNCHANGED <<selectedFile, imagePreview, reading, ocrResult, handwritingResult,
                   isProcessing, error, tpc, delivered, picked, nPicks>>
    /\ Render
    /\ UNCHANGED <<recognizerVars, imageVars>>

\* handleTFComplete or handleTFError, for the next callback of run r.
RouteCallback(r) ==
    /\ delivered[r] < Len(callbacks[r])
    /\ delivered' = [delivered EXCEPT ![r] = @ + 1]
    /\ LET call == callbacks[r][delivered[r] + 1] IN
       IF call.cb = "onComplete"
       THEN /\ handwritingResult' =
                   Some([digits |-> call.digits, combinedText |-> call.combinedText])
            /\ UNCHANGED error
       ELSE /\ error' = call.message
            /\ UNCHANGED handwritingResult
    /\ isProcessing' = FALSE
    /\ UNCHANGED <<selectedFile, imagePreview, reading, ocrResult, engine, tpc, picked,
                   nPicks>>
    /\ Render
    /\ UNCHANGED <<recognizerVars, imageVars>>

\* The effect of the recognizer the route renders runs.
RouteStart(r) ==
    /\ NoUndelivered
    /\ Mounted
    /\ r = gen
    /\ Start(r)

\* The cleanup of an effect that was replaced, or whose recognizer is no longer rendered.
RouteCancel(r) ==
    /\ NoUndelivered
    /\ ~(Mounted /\ r = gen)
    /\ Cancel(r)

\* The route before the first event.
RouteIdle ==
    /\ selectedFile = None
    /\ imagePreview = None
    /\ reading = {}
    /\ ocrResult = None
    /\ handwritingResult = None
    /\ isProcessing = FALSE
    /\ error = ""
    /\ engine = "tensorflow"
    /\ tpc = "idle"
    /\ gen = 0
    /\ delivered = [r \in Runs |-> 0]
    /\ picked = [type |-> "", size |-> 0]
    /\ nPicks = 0

\* The files the user picks: two that are accepted, one of them of the largest size, and
\* two that are rejected, for the two reasons.
Uploads ==
    {[type |-> "image/png", size |-> MAX_FILE_SIZE],
     [type |-> "image/jpeg", size |-> 1],
     [type |-> "image/png", size |-> MAX_FILE_SIZE + 1],
     [type |-> "application/pdf", size |-> 1]}

\* ------------------------------------------------------- specifications
\* The classifier service and the recognizer after the module is loaded.
InitRecognizer ==
    /\ model = NoModel
    /\ stored \in BOOLEAN
    /\ nextHandle = 1
    /\ disposed = {}
    /\ nDispose = 0
    /\ nTrain = 0
    /\ lpc = [p \in Procs |-> "none"]
    /\ newModel = [p \in Procs |-> NoModel]
    /\ got = [p \in Procs |-> NoModel]
    /\ promise = [p \in Procs |-> Pending]
    /\ cpc = [c \in Clients |-> "idle"]
    /\ cabsent = [c \in Clients |-> FALSE]
    /\ cepoch = [c \in Clients |-> 0]
    /\ rpc = [r \in Runs |-> "idle"]
    /\ cancelled = [r \in Runs |-> FALSE]
    /\ progLog = [r \in Runs |-> <<>>]
    /\ status = [r \in Runs |-> "Initializing..."]
    /\ stages = [r \in Runs |-> <<>>]
    /\ callbacks = [r \in Runs |-> <<>>]
    /\ segments = [r \in Runs |-> <<>>]
    /\ segmented = [r \in Runs |-> FALSE]
    /\ results = [r \in Runs |-> <<>>]
    /\ idx = [r \in Runs |-> 0]
    /\ threw = [r \in Runs |-> {}]
    /\ fault = [r \in Runs |-> NoErr]

\* No call of segmentDigits has been made on img.
SegmenterIdle(img) ==
    /\ image = img
    /\ spc = "idle"
    /\ expectedDigits = 0
    /\ visited = {}
    /\ components = <<>>
    /\ scanIdx = 0
    /\ fill = NoFill
    /\ marked = {}
    /\ pops = 0
    /\ fills = <<>>
    /\ out = <<>>

Init ==
    /\ InitRecognizer
    /\ RouteIdle
    /\ SegmenterIdle(NoImage)
    /\ FilterIdle(<<255, 255, 255, 255>>, TunedConfig)

\* The segmenter is given any of the rasters.
InitSegment ==
    /\ InitRecognizer
    /\ RouteIdle
    /\ ~stored
    /\ \E img \in Rasters : SegmenterIdle(img)
    /\ FilterIdle(<<255, 255, 255, 255>>, TunedConfig)

\* The filter loop is given any of the pixels and options.
InitFilter ==
    /\ InitRecognizer
    /\ RouteIdle
    /\ ~stored
    /\ SegmenterIdle(NoImage)
    /\ \E p \in Pixels, c \in Configs : FilterIdle(p, c)

\* The steps of a pending loadMNISTModel call of p.
LoadStep(p) ==
    \/ StoreLoadOk(p)
    \/ StoreLoadFail(p)
    \/ DataLoadOk(p)
    \/ DataLoadFail(p)
    \/ FitOk(p)
    \/ FitFail(p)
    \/ SaveOk(p)
    \/ SaveFail(p)

\* The steps of recognize run r and of the promises it awaits.
RunStep(r) ==
    \/ Start(r)
    \/ Cancel(r)
    \/ ResumeLoad(r)
    \/ PreprocessOk(r)
    \/ PreprocessFail(r)
    \/ ResumePreprocess(r)
    \/ DecodeOk(r)
    \/ DecodeFail(r)
    \/ ResumeDecode(r)
    \/ ResumeInfer(r)

\* The classifier service under direct callers.
NextService ==
    \/ \E c \in Clients : CallEnsure(c) \/ CallClassify(c) \/ LoadStep(c)
    \/ DisposeModel

SpecService == Init /\ [][NextService]_vars

\* The recognizer component, with the classifier service it calls.  disposeModel has no
\* caller in the repository, so the cache a run filled stays filled.
NextRecognize ==
    \E r \in Runs : RunStep(r) \/ LoadStep(r)

SpecRecognize == Init /\ [][NextRecognize]_vars

\* The promises run r awaits settle and the code after each await runs.
RunProgress(r) ==
    \/ ResumeLoad(r)
    \/ PreprocessOk(r)
    \/ PreprocessFail(r)
    \/ ResumePreprocess(r)
    \/ DecodeOk(r)
    \/ DecodeFail(r)
    \/ ResumeDecode(r)
    \/ ResumeInfer(r)
    \/ LoadStep(r)

\* The recognizer when every asynchronous step of every run settles.
FairRecognize == SpecRecognize /\ \A r \in Runs : WF_vars(RunProgress(r))

\* The route, with the recognizer it renders and the classifier service.  A continuation
\* of a run, of a load or of a reader runs when the browser is between tasks.
NextRoute ==
    \/ \E file \in Uploads : HandleFileSelect(file)
    \/ \E file \in Uploads : ReaderOnload(file)
    \/ HandleProcess
    \/ TesseractSettle
    \/ \E e \in {"tesseract", "tensorflow"} : SetEngine(e)
    \/ \E r \in Runs : RouteCallback(r)
    \/ \E r \in Runs : RouteStart(r)
    \/ \E r \in Runs : RouteCancel(r)
    \/ \E r \in Runs : Quiet /\ ResumeLoad(r)
    \/ \E r \in Runs : Quiet /\ PreprocessOk(r)
    \/ \E r \in Runs : Quiet /\ PreprocessFail(r)
    \/ \E r \in Runs : Quiet /\ ResumePreprocess(r)
    \/ \E r \in Runs : Quiet /\ DecodeOk(r)
    \/ \E r \in Runs : Quiet /\ DecodeFail(r)
    \/ \E r \in Runs : Quiet /\ ResumeDecode(r)
    \/ \E r \in Runs : Quiet /\ ResumeInfer(r)
    \/ \E r \in Runs : Quiet /\ LoadStep(r)

SpecRoute == Init /\ [][NextRoute]_vars

\* One call of segmentDigits or segmentDigitsSimple on a raster.
NextSegment ==
    \/ CallSegmentDigits
    \/ \E n \in 0..MaxBands : CallSegmentDigitsSimple(n)
    \/ ScanSeed
    \/ PopOutside
    \/ PopSkip
    \/ PopMark
    \/ FillReturn
    \/ ScanEnd

SpecSegment == InitSegment /\ [][NextSegment]_vars

\* One iteration of the filter loop on a pixel.
NextFilter == ApplyFilter

SpecFilter == InitFilter /\ [][NextFilter]_vars

Next == NextService \/ NextRecognize \/ NextRoute \/ NextSegment \/ NextFilter

Spec == Init /\ [][Next]_vars

\* --------------------------------------------------------------- claims
\* The calls that are inside loadMNISTModel's load / build / train path.
InFlight == {p \in Procs : lpc[p] # "none"}

Terminal == {"done", "failed", "abandoned"}

\* a <= b for fractions with positive denominators.
Leq(a, b) == a[1] * b[2] <= b[1] * a[2]

\* C1: overlapping loadMNISTModel calls share one load: at most one call is ever inside
\* the store-load / build / train path.
C1_SingleFlight == Cardinality(InFlight) <= 1

\* C2: once a run's cancellation flag is set, the run calls neither onComplete nor onError.
C2_SilentAfterCancel ==
    [][\A r \in Runs : cancelled[r] => callbacks'[r] = callbacks[r]]_vars

\* C3: once a run's cancellation flag is set, the run starts no further stage.
C3_NoStageAfterCancel ==
    [][\A r \in Runs : cancelled[r] => stages'[r] = stages[r]]_vars

\* C4: an inference that throws is recorded as (-1, 0, bbox of its segment) and the loop goes
\* on; a run with n >= 1 segments ends only by onComplete, with n results, result k carrying
\* the bbox of segment k.
C4_PerGlyphTolerance ==
    \A r \in Runs :
        LET n == Len(segments[r]) IN
        /\ Len(results[r]) <= n
        /\ \A k \in 1..Len(results[r]) :
              /\ results[r][k].bbox = segments[r][k].bbox
              /\ (k - 1) \in threw[r] =>
                    results[r][k].digit = -1 /\ results[r][k].confidence = 0
              /\ (k - 1) \notin threw[r] => results[r][k].digit \in 0..9
        /\ rpc[r] = "infer" => Len(results[r]) = idx[r] /\ idx[r] < n
        /\ (segmented[r] /\ n >= 1) =>
              /\ rpc[r] \in {"infer", "done"}
              /\ rpc[r] = "infer" => callbacks[r] = <<>>
              /\ rpc[r] = "done" =>
                    /\ Len(callbacks[r]) = 1
                    /\ callbacks[r][1].cb = "onComplete"
                    /\ callbacks[r][1].digits = results[r]
                    /\ Len(results[r]) = n

\* C4's case: an uncancelled run of two segments completed although the first inference threw.
C4_Witness ==
    \E r \in Runs :
        /\ rpc[r] = "done"
        /\ ~cancelled[r]
        /\ Len(segments[r]) = 2
        /\ threw[r] = {0}

\* C5: zero segments: onError('No digits detected...') once, no inference, no onComplete.
C5_NoDigitsDetected ==
    \A r \in Runs :
        (segmented[r] /\ Len(segments[r]) = 0) =>
            /\ rpc[r] = "failed"
            /\ callbacks[r] =
                  <<[cb |-> "onError",
                     message |-> "No digits detected. Try adjusting the image or preprocessing.",
                     digits |-> <<>>, combinedText |-> ""]>>
            /\ results[r] = <<>>
            /\ \A k \in 1..Len(stages[r]) : stages[r][k].stage # "Classifying"

C5_Witness ==
    \E r \in Runs : segmented[r] /\ Len(segments[r]) = 0 /\ Len(callbacks[r]) = 1

\* C6: a failure of the model load, the preprocessing or the decoding ends the run: onError
\* with the error's message unless the run was cancelled, no segmentation, no inference, no
\* onComplete.
C6_FatalBeforeSegmentation ==
    \A r \in Runs :
        fault[r] # NoErr =>
            /\ ~segmented[r]
            /\ results[r] = <<>>
            /\ \A k \in 1..Len(stages[r]) : stages[r][k].stage \notin {"Segmenting", "Classifying"}
            /\ rpc[r] \in {"failed", "abandoned"}
            /\ rpc[r] = "abandoned" => cancelled[r] /\ callbacks[r] = <<>>
            /\ rpc[r] = "failed" =>
                  callbacks[r] = <<[cb |-> "onError", message |-> fault[r].message,
                                    digits |-> <<>>, combinedText |-> ""]>>

\* C6's case: the training data could not be fetched and the uncancelled run reported it.
C6_Witness ==
    \E r \in Runs :
        /\ ~cancelled[r]
        /\ rpc[r] = "failed"
        /\ fault[r].message = "Failed to initialize MNIST model: Unknown error"

\* The number of loop iterations run r has begun.
GlyphsBegun(r) == Cardinality({k \in 1..Len(stages[r]) : stages[r][k].stage = "Classifying"})

\* C7: the progress values of a run never decrease, lie in [0,100], and those reported in
\* the classification loop lie in [55,95].
C7_ProgressMonotone ==
    \A r \in Runs :
        LET s == progLog[r] IN
        /\ \A k \in 1..Len(s) :
              /\ s[k][2] > 0
              /\ Leq(<<0, 1>>, s[k]) /\ Leq(s[k], <<100, 1>>)
              /\ k > 1 => Leq(s[k - 1], s[k])
        /\ \A k \in 6..(5 + GlyphsBegun(r)) :
              /\ k <= Len(s)
              /\ Leq(<<55, 1>>, s[k]) /\ Leq(s[k], <<95, 1>>)
        /\ rpc[r] = "done" =>
              /\ Len(s) = 6 + Len(segments[r])
              /\ s[Len(s)] = <<100, 1>>
              /\ \A k \in 1..5 : s[k] = <<(<<10, 25, 35, 45, 55>>)[k], 1>>

\* C7's case: a completed run of two segments, which reported 75 before the second glyph.
C7_Witness ==
    \E r \in Runs :
        /\ rpc[r] = "done"
        /\ Len(progLog[r]) = 8
        /\ progLog[r][7] = <<150, 2>>

\* The stages of a run of n segments, in order.
StageOrder(n) ==
    <<[stage |-> "LoadingModel", glyph |-> -1], [stage |-> "Preprocessing", glyph |-> -1],
      [stage |-> "Decoding", glyph |-> -1], [stage |-> "Segmenting", glyph |-> -1]>>
    \o [k \in 1..n |-> [stage |-> "Classifying", glyph |-> k - 1]]

IsPrefix(a, b) == Len(a) <= Len(b) /\ \A k \in 1..Len(a) : a[k] = b[k]

\* C8: a run goes through LoadingModel, Preprocessing, Decoding, Segmenting, Classifying 0,
\* 1, ..., n-1 in this order without repeating one; a stage starts only when the awaited one
\* has settled; after Done or Failed the run reports and calls nothing.
C8_StageOrder ==
    /\ [](\A r \in Runs :
            /\ IsPrefix(stages[r], StageOrder(Len(segments[r])))
            /\ rpc[r] = "idle" <=> stages[r] = <<>>
            /\ rpc[r] = "load" => stages[r][Len(stages[r])].stage = "LoadingModel"
            /\ rpc[r] = "preprocess" => stages[r][Len(stages[r])].stage = "Preprocessing"
            /\ rpc[r] = "decode" => stages[r][Len(stages[r])].stage = "Decoding"
            /\ rpc[r] = "infer" =>
                   stages[r][Len(stages[r])] = [stage |-> "Classifying", glyph |-> idx[r]]
            /\ rpc[r] = "done" => stages[r] = StageOrder(Len(segments[r])) /\ Len(segments[r]) >= 1
            /\ Len(callbacks[r]) <= 1
            /\ callbacks[r] # <<>> <=> rpc[r] \in {"done", "failed"})
    /\ [][\A r \in Runs :
            /\ stages'[r] # stages[r] => rpc[r] = "idle" \/ promise[r].state # "pending"
            /\ rpc[r] \in Terminal =>
                  /\ rpc'[r] = rpc[r]
                  /\ progLog'[r] = progLog[r]
                  /\ status'[r] = status[r]
                  /\ stages'[r] = stages[r]
                  /\ callbacks'[r] = callbacks[r]]_vars

\* C8's case: a completed run of two segments.
C8_Witness ==
    \E r \in Runs : rpc[r] = "done" /\ Len(stages[r]) = 6 /\ status[r] = "Complete!"

C10_NotReadyFails ==
    \A c \in Clients :
        (cpc[c] = "classify" /\ cabsent[c]) => promise[c].state # "ok"

InitFailureMessages ==
    {"Failed to initialize MNIST model: Unknown error",
     "Failed to initialize MNIST model: Failed to fetch",
     "Failed to initialize MNIST model: fit failed",
     "Failed to initialize MNIST model: save failed"}

\* C10 amended: a classify call made while the cache is null first awaits loadMNISTModel; it
\* returns a prediction only when that call produced a model, and it rejects only with the
\* initialization failure or with what the forward pass threw.
C10_LazyInit ==
    \A c \in Clients :
        (cpc[c] = "classify" /\ cabsent[c]) =>
            /\ lpc[c] # "none" => promise[c].state = "pending"
            /\ promise[c].state = "ok" =>
                  /\ got[c] # NoModel
                  /\ promise[c].digit \in 0..9
            /\ promise[c].state = "err" =>
                  \/ got[c] = NoModel /\ promise[c].err.isError
                                      /\ promise[c].err.message \in InitFailureMessages
                  \/ got[c] # NoModel /\ promise[c].err.message = "predict failed"

\* C10's case: a classify call on a null cache returned a prediction after loading the model.
C10_Witness ==
    \E c \in Clients :
        /\ cpc[c] = "classify"
        /\ cabsent[c]
        /\ promise[c].state = "ok"
        /\ got[c] # NoModel

\* C11 as stated: over any sequence of calls the build-and-train path runs at most once.
C11_TrainOnce == nTrain <= 1

\* The steps of client c's predictDigit call: the call itself and the steps of the
\* loadMNISTModel call it awaits.
ClassifyStep(c) == cpc'[c] = "classify" /\ (cpc[c] = "idle" \/ lpc'[c] # lpc[c])

\* C12 as stated: no step of a classify call changes the cached model.
C12_ClassifyReadOnly ==
    [][\A c \in Clients : ClassifyStep(c) => model' = model]_vars

\* C12 amended: a classify call made on a ready cache uses that instance, starts no load and
\* leaves the cache as it is; a call changes the cache only if it was made on a null cache,
\* and then only when the load it awaits succeeds, to the instance it goes on to use.
C12_ClassifyFillsAbsentOnly ==
    [][\A c \in Clients : ClassifyStep(c) =>
          /\ (cpc[c] = "idle" /\ model # NoModel) =>
                /\ model' = model
                /\ lpc'[c] = "none"
                /\ got'[c] = model
                /\ promise'[c].state # "pending"
          /\ model' # model =>
                /\ cabsent'[c]
                /\ lpc[c] \in {"store", "save"} /\ lpc'[c] = "none"
                /\ model' = got'[c] /\ model' # NoModel
          /\ (promise'[c].state = "err" /\ got'[c] = NoModel) => model' = model]_vars

\* C12's case: a classify call made on a ready cache has returned and the cache still holds
\* the instance the call used.
C12_Witness ==
    \E c \in Clients :
        /\ cpc[c] = "classify"
        /\ ~cabsent[c]
        /\ promise[c].state = "ok"
        /\ got[c] = model
        /\ model # NoModel

\* The character of a digit, by table.
CharOf(d) ==
    IF d \in 0..9 THEN (<<"0", "1", "2", "3", "4", "5", "6", "7", "8", "9">>)[d + 1] ELSE "?"

\* The first k characters of the text of a result list.
RECURSIVE TextOf(_, _)
TextOf(res, k) == IF k = 0 THEN "" ELSE TextOf(res, k - 1) \o CharOf(res[k].digit)

\* C13: the combinedText passed to onComplete has one character per segment, the k-th being
\* the digit of the k-th result, or '?' for -1, and the k-th result is that of the k-th
\* segment from the left.
C13_CombinedText ==
    \A r \in Runs : \A j \in 1..Len(callbacks[r]) :
        LET cb == callbacks[r][j] IN
        cb.cb = "onComplete" =>
            /\ Len(cb.digits) = Len(segments[r])
            /\ Len(cb.combinedText) = Len(segments[r])
            /\ cb.combinedText = TextOf(cb.digits, Len(cb.digits))
            /\ \A k \in 1..Len(cb.digits) :
                  /\ cb.digits[k].digit \in (0..9) \cup {-1}
                  /\ cb.digits[k].bbox = segments[r][k].bbox
                  /\ \A m \in 1..(k - 1) : segments[r][m].bbox.x <= segments[r][k].bbox.x

\* C13's case: a run of two segments whose first inference threw completed with "?9".
C13_Witness ==
    \E r \in Runs :
        /\ rpc[r] = "done"
        /\ threw[r] = {0}
        /\ callbacks[r][1].combinedText = "?9"

\* ------------------------------------------------ claims on segmentation
\* The foreground of a raster, as pixel indices, and the coordinates of an index.
Foreground(img) == {i \in DOMAIN img.data : img.data[i] < 128}
PixelX(i, img) == i % img.width
PixelY(i, img) == i \div img.width

\* Two different pixels that are 8-neighbours.
Touching(i, j, img) ==
    /\ i # j
    /\ PixelX(i, img) - PixelX(j, img) \in {-1, 0, 1}
    /\ PixelY(i, img) - PixelY(j, img) \in {-1, 0, 1}

\* The pixels of F reachable from S through 8-neighbours in F.
RECURSIVE Reachable(_, _, _, _)
Reachable(S, frontier, F, img) ==
    LET new == {j \in F \ S : \E i \in frontier : Touching(i, j, img)}
    IN  IF new = {} THEN S ELSE Reachable(S \cup new, new, F, img)

ComponentOf(i, img) == Reachable({i}, {i}, Foreground(img), img)

\* The 8-connected components of the pixel set F.
RECURSIVE ComponentsOf(_, _)
ComponentsOf(F, img) ==
    IF F = {} THEN {}
    ELSE LET i == CHOOSE j \in F : \A k \in F : j <= k
             C == Reachable({i}, {i}, F, img)
         IN  {C} \cup ComponentsOf(F \ C, img)

\* The tight box of a non-empty pixel set.
TightBox(C, img) ==
    LET xs == {PixelX(i, img) : i \in C}
        ys == {PixelY(i, img) : i \in C}
        x0 == CHOOSE a \in xs : \A b \in xs : a <= b
        x1 == CHOOSE a \in xs : \A b \in xs : a >= b
        y0 == CHOOSE a \in ys : \A b \in ys : a <= b
        y1 == CHOOSE a \in ys : \A b \in ys : a >= b
    IN  [x |-> x0, y |-> y0, width |-> x1 - x0 + 1, height |-> y1 - y0 + 1]

\* The first pixel of a set in raster-scan order.
FirstPixel(C) == CHOOSE i \in C : \A j \in C : i <= j

\* A call of the connected-component method has returned.
SegmentDigitsDone == spc = "done" /\ expectedDigits = 0

\* C14: a connected component is emitted iff it has at least 50 pixels, a box of at most 90%
\* of the raster area and a box of at least 10 by 10; a raster with no such component (one
\* 3x3 speck, say) gives the empty sequence.
C14_RejectionRule ==
    SegmentDigitsDone =>
        LET all == ComponentsOf(Foreground(image), image)
            kept == {C \in all :
                        LET b == TightBox(C, image) IN
                        /\ Cardinality(C) >= 50
                        /\ 10 * (b.width * b.height) <= 9 * (image.width * image.height)
                        /\ b.width >= 10
                        /\ b.height >= 10}
        IN  /\ Len(out) = Cardinality(kept)
            /\ Len(components) = Len(out)
            /\ {components[k] : k \in 1..Len(components)} = {TightBox(C, image) : C \in kept}
            /\ kept = {} => out = <<>>

\* C14's case: of two components, the one of 50 pixels was emitted and the one of 49 was not.
C14_Witness ==
    /\ SegmentDigitsDone
    /\ Len(fills) = 2
    /\ fills[1].pixelCount = 50 /\ fills[1].accepted
    /\ fills[2].pixelCount = 49 /\ ~fills[2].accepted
    /\ Len(out) = 1

\* C15 as stated: the returned segments are in strictly ascending order of bbox.x.
C15_StrictlyAscending ==
    SegmentDigitsDone =>
        \A k \in 1..Len(out) : \A m \in (k + 1)..Len(out) : out[k].bbox.x < out[m].bbox.x

\* C15 amended: the returned segments are in ascending order of bbox.x, segments of equal x
\* being allowed; the components are ordered by their left edge and, for equal left edges,
\* by the raster-scan position of their first pixel, so that the raster determines the
\* count, the boxes and their order.
C15_Ascending ==
    SegmentDigitsDone =>
        LET all == ComponentsOf(Foreground(image), image)
            first(b) == FirstPixel(CHOOSE C \in all : TightBox(C, image) = b)
        IN  /\ Len(out) = Len(components)
            /\ \A k \in 1..Len(out) :
                  /\ out[k].bbox.x = Max(0, components[k].x - 5)
                  /\ \E C \in all : TightBox(C, image) = components[k]
                  /\ \A m \in (k + 1)..Len(out) :
                        /\ out[k].bbox.x <= out[m].bbox.x
                        /\ components[k].x <= components[m].x
                        /\ components[k].x = components[m].x =>
                              first(components[k]) < first(components[m])

\* C15's case: two segments with the same bbox.x, the upper one first.
C15_Witness ==
    /\ SegmentDigitsDone
    /\ Len(out) = 2
    /\ out[1].bbox.x = out[2].bbox.x
    /\ components[1].y < components[2].y

\* C16: the emitted box is the component's box grown by 5 on each side and clamped to the
\* raster.
C16_PaddingFourSides ==
    SegmentDigitsDone =>
        \A k \in 1..Len(out) :
            LET c == components[k]
                b == out[k].bbox
            IN  /\ b.x = Max(0, c.x - 5)
                /\ b.y = Max(0, c.y - 5)
                /\ b.x + b.width = Min(image.width, c.x + c.width + 5)
                /\ b.y + b.height = Min(image.height, c.y + c.height + 5)

\* C17: every emitted box has positive width and height and lies inside the raster; the
\* bands of segmentDigitsSimple(image, n) are n boxes of one width that follow each other
\* from left to right without overlap.
C17_BoxesValid ==
    spc = "done" =>
        /\ \A k \in 1..Len(out) :
              LET b == out[k].bbox IN
              /\ b.width > 0 /\ b.height > 0
              /\ 0 <= b.x /\ b.x + b.width <= image.width
              /\ 0 <= b.y /\ b.y + b.height <= image.height
        /\ expectedDigits >= 1 =>
              /\ Len(out) = expectedDigits
              /\ \A k \in 1..Len(out) : out[k].bbox.width = out[1].bbox.width
              /\ \A k \in 1..(Len(out) - 1) :
                    out[k].bbox.x + out[k].bbox.width <= out[k + 1].bbox.x

\* C20: a floodFill returns after 1 + 8 * (pixels marked) iterations, which is at most
\* 1 + 8 * (foreground pixels); it marks only unvisited foreground pixels; what it has
\* marked when it returns is the 8-connected
\* component of its seed, with the tight box and the size of that component; when the scan
\* is over every foreground pixel has been marked by exactly one floodFill.
C20_FloodFill ==
    /\ spc = "fill" =>
          /\ pops + Len(fill.stack) = 1 + 8 * fill.pixelCount
          /\ pops <= 1 + 8 * Cardinality(Foreground(image))
          /\ fill.pixelCount = Cardinality(marked)
          /\ marked \subseteq visited
          /\ marked \subseteq Foreground(image)
          /\ \A k \in 1..Len(fills) : fills[k].marked \cap marked = {}
    /\ visited \subseteq Foreground(image)
    /\ spc \in {"scan", "done"} =>
          /\ \A k \in 1..Len(fills) :
                /\ fills[k].marked = ComponentOf(fills[k].seed, image)
                /\ fills[k].bbox = TightBox(fills[k].marked, image)
                /\ fills[k].pixelCount = Cardinality(fills[k].marked)
                /\ fills[k].pops = 1 + 8 * fills[k].pixelCount
                /\ \A m \in (k + 1)..Len(fills) : fills[k].marked \cap fills[m].marked = {}
          /\ visited = UNION {fills[k].marked : k \in 1..Len(fills)}
    /\ SegmentDigitsDone => visited = Foreground(image)

\* C20's case: three pixels that touch only at their corners were labelled as one component.
C20_Witness ==
    /\ SegmentDigitsDone
    /\ Len(fills) = 1
    /\ fills[1].pixelCount = 3
    /\ fills[1].bbox.width = 3
    /\ fills[1].bbox.height = 3

AllFiles ==
    [type : VALID_IMAGE_TYPES \cup {"image/svg+xml", "application/pdf", "IMAGE/PNG", ""},
     size : {0, 1, MAX_FILE_SIZE - 1, MAX_FILE_SIZE, MAX_FILE_SIZE + 1}]

\* The files the upload contract accepts: one of the six types, at most 10 MiB.
Accepted(file) ==
    /\ file.type \in {"image/jpeg", "image/jpg", "image/png", "image/gif", "image/webp",
                      "image/bmp"}
    /\ file.size <= 10 * 1024 * 1024

\* validateImageFile accepts exactly the accepted files and gives every other file a
\* message.
UploadContract ==
    \A file \in AllFiles :
        LET validation == ValidateImageFile(file) IN
        /\ validation.valid <=> Accepted(file)
        /\ ~validation.valid => validation.error # ""

\* A step that is a handleFileSelect call with a file the contract rejects.
RejectedSelect == nPicks' = nPicks + 1 /\ ~Accepted(picked')

\* C18: validateImageFile accepts a file iff its type is one of the six image types and
\* its size is at most 10 MiB, and a rejected file gets a message; handleFileSelect with
\* a rejected file shows a message, leaves the selected file, the results and the
\* processing flag as they were, and starts no pipeline: no recognizer effect is asked
\* for and no run changes its position.
C18_UploadValidation ==
    /\ []UploadContract
    /\ [][RejectedSelect =>
            /\ error' # ""
            /\ UNCHANGED <<selectedFile, ocrResult, handwritingResult, isProcessing>>
            /\ gen' = gen
            /\ rpc' = rpc]_vars

\* ------------------------------------------------ claims on the callbacks
\* C21: a run that is not cancelled calls back at most once; it has called back exactly
\* when it has ended, by onComplete where it ended in Step 6 and by onError where it ended
\* before; and when its asynchronous steps settle, a run that started is cancelled or calls
\* back.
C21_OneTerminalCallback ==
    /\ [](\A r \in Runs :
            ~cancelled[r] =>
                /\ Len(callbacks[r]) <= 1
                /\ Len(callbacks[r]) = 1 <=> rpc[r] \in {"done", "failed"}
                /\ rpc[r] = "done" => callbacks[r][1].cb = "onComplete"
                /\ rpc[r] = "failed" => callbacks[r][1].cb = "onError")
    /\ \A r \in Runs : rpc[r] # "idle" ~> (cancelled[r] \/ Len(callbacks[r]) = 1)

C21_Witness ==
    \E r \in Runs :
        /\ ~cancelled[r]
        /\ rpc[r] = "failed"
        /\ fault[r] # NoErr
        /\ callbacks[r] = <<OnError(ErrorMessage(fault[r]))>>

\* ------------------------------------------------ claims on the cache
\* A step in which p's loadMNISTModel call rejects: it ends and hands over no instance.
LoadRejects(p) ==
    /\ lpc[p] # "none"
    /\ lpc'[p] = "none"
    /\ got'[p] = NoModel
    /\ promise'[p].state = "err"

\* C23: when a loadMNISTModel call rejects, the cache is null.
C23_FailedInitNotCached ==
    [][\A p \in Procs : LoadRejects(p) => model' = NoModel]_vars

\* The instances that were created: loaded from the store or built by createMNISTModel.
Created == 1..(nextHandle - 1)

\* Every instance that was created is the cached one, is disposed, or is still the
\* newModel of a call in progress.
NoInstanceLeft ==
    \A h \in Created : h = model \/ h \in disposed \/ \E p \in Procs : newModel[p] = h

\* The cache is filled only by a call that was made after the last disposeModel.
FilledAfterDispose ==
    [][model' # model /\ model' # NoModel =>
          \E c \in Clients : lpc[c] # "none" /\ lpc'[c] = "none" /\ cepoch[c] = nDispose]_vars

\* C24: a loadMNISTModel call that was in progress when disposeModel was called does not
\* fill the cache, and no instance that was created is left neither disposed nor cached.
C24_DisposeNotUndone == FilledAfterDispose /\ []NoInstanceLeft

\* ------------------------------------------------ claims on the processing flag
\* Run r will not call onComplete or onError: it has not started, or it has ended, or it
\* is cancelled and awaits loadMNISTModel, after which it returns.
Silent(r) == rpc[r] \in Terminal \cup {"idle"} \/ (rpc[r] = "load" /\ cancelled[r])

\* The route shows processing with nothing left to end it: the Tesseract branch is not
\* running (so the flag was set by handleProcess with the tensorflow engine), no
\* recognizer is rendered, every effect and callback has been handled, and no run will
\* call back.
Stranded ==
    /\ isProcessing
    /\ tpc = "idle"
    /\ ~Mounted
    /\ Quiet
    /\ \A r \in Runs : Silent(r)

\* C22: the route is never left with isProcessing true, no recognizer rendered and no run
\* that will call back.
C22_FlagClears == ~Stranded

====
